---- MODULE Spec2Model ----
(***************************************************************************)
(* Nexus: the batching executor of a backend (ModelExecutor,               *)
(* src/src/nexus/backend/model_exec.cpp) and the scheduler's record of a   *)
(* backend (BackendRpcClient,                                              *)
(* src/src/nexus/scheduler/backend_rpc_client.cpp).                        *)
(*                                                                         *)
(* Two state machines share the module.  Spec is one executor: threads     *)
(* calling AddTask, one thread calling Execute, the clock, and tasks       *)
(* turning non-OK.  SchedSpec is one backend record of the scheduler:      *)
(* PrepareLoadModel and the two LoadModel operations.  The model the       *)
(* executor runs is loaded from a config the scheduler operations can      *)
(* produce.                                                                *)
(*                                                                         *)
(* Times of the scheduler are whole microseconds and its arithmetic is     *)
(* exact (the code computes in float; rounding is not modelled).  Times    *)
(* of the executor are clock ticks, TicksPerUs of them to a microsecond,   *)
(* so that the profile's float latency and int(latency) differ.            *)
(***************************************************************************)
EXTENDS Integers, Sequences, FiniteSets, TLC

VARIABLES
  \* ---- scheduler: one BackendRpcClient
  profile,             \* the profile ModelDatabase holds for this GPU, or NoProfile
  exec_cycle_us,       \* exec_cycle_us_
  duty_cycle_us,       \* duty_cycle_us_
  model_table_config,  \* model_table_config_
  dirty_model_table,   \* dirty_model_table_
  plan,                \* the last PrepareLoadModel call: its arguments and what it gave
  sched_state,         \* "running", or "crashed" once a null profile was dereferenced
  last_time,           \* last_time_: when the backend was last known alive
  wall,                \* std::chrono::system_clock::now(), in seconds
  call,                \* the operation on the record that made the last step: the
                       \* RPCs it issued, the table it sent, what it returned
  mutex_,              \* mutex_ is held
  request,             \* the UpdateModelTable RPC that is outstanding, if any
  acked,               \* the table the backend last acknowledged with CTRL_OK
  \* ---- executor: one ModelExecutor
  model,               \* model_: batch() and max_batch() of the loaded instance
  has_profile,         \* profile_ != nullptr
  tasks,               \* the Task objects, by object
  next_obj,            \* the next Task object the ingress layer creates
  processing_tasks,    \* processing_tasks_: tid -> Task object (NoTask: absent)
  input_queue,         \* input_queue_: the inputs queued
  task_queue,          \* task_queue_: the shared postprocess queue
  batch_id_,           \* batch_id_
  mu,                  \* mu_ is held
  pc,                  \* where the Execute thread is
  batch_task,          \* the BatchTask of the running Execute
  batch_size,          \* GetBatchInput's local batch_size
  finish,              \* GetBatchInput's local finish
  removing,            \* the task GetBatchInput is about to remove
  now,                 \* Clock::now()
  hist                 \* history of the run, read by the properties only: whether a
                       \* task id was added twice, the ids Execute calls took, the
                       \* id of the last batch that reached the forward pass, the
                       \* time GetBatchInput read the clock

schedVars == <<profile, exec_cycle_us, duty_cycle_us, model_table_config,
               dirty_model_table, plan, sched_state, last_time, wall, call,
               mutex_, request, acked>>
execVars == <<model, has_profile, tasks, next_obj, processing_tasks, input_queue,
              task_queue, batch_id_, mu, pc, batch_task, batch_size, finish,
              removing, now, hist>>
vars == <<schedVars, execVars>>

----------------------------------------------------------------------------
(* Bounds of the model. *)

\* batch sizes a profile table knows: 1..MaxKnownBatch
MaxKnownBatch == 2
\* configs the static loader may add to one backend
MaxModels == 2

\* SLAs (ms), offered workloads (req/s) and the latencies (us) of the profiles
SlaMs == {2, 6, 10}
Workloads == {0, 100, 150, 250, 1000}
FwdLatencies == {1000, 8000}
PreprocessUs == 500
PostprocessUs == 500

Max(S) == CHOOSE x \in S : \A y \in S : y <= x
Min(S) == CHOOSE x \in S : \A y \in S : x <= y

----------------------------------------------------------------------------
(* The profile oracle (ModelProfile).  Its code is not in src/: it is       *)
(* modelled from the specification, section 4.1.                            *)

NoProfile == [fwd |-> <<>>, mem |-> <<>>, pre |-> 0, post |-> 0, present |-> FALSE]
OutOfRange == -1

\* memory (bytes) of a batch, told apart from every latency
MemoryOf(b) == 7 * b

Profiles ==
  { [fwd |-> f, mem |-> [b \in 1..MaxKnownBatch |-> MemoryOf(b)],
     pre |-> PreprocessUs, post |-> PostprocessUs, present |-> TRUE] :
    f \in [1..MaxKnownBatch -> FwdLatencies] }

\* forward_latency(batch): a table lookup; out of range fails
GetForwardLatency(p, batch) ==
  IF batch \in 1..Len(p.fwd) THEN p.fwd[batch] ELSE OutOfRange

GetMemoryUsage(p, batch) ==
  IF batch \in 1..Len(p.mem) THEN p.mem[batch] ELSE OutOfRange

GetPreprocessLatency(p) == p.pre
GetPostprocessLatency(p) == p.post

\* max_throughput(sla_ms): the greatest b with pre + forward(b) + post <= sla_us
\* (0 when there is none) and b * 1e6 / sla_us, which the caller receives in a
\* uint32_t: its integer part
GetMaxThroughput(p, sla_ms) ==
  LET fits == { b \in 1..Len(p.fwd) : p.pre + p.fwd[b] + p.post <= sla_ms * 1000 }
      b == IF fits = {} THEN 0 ELSE Max(fits)
  IN  <<b, (b * 1000000) \div (sla_ms * 1000)>>

----------------------------------------------------------------------------
(* BackendRpcClient::PrepareLoadModel *)

\* a ModelInstanceConfig as protobuf constructs it: every field unset
EmptyConfig ==
  [latency_sla |-> 0, batch |-> 0, max_batch |-> 0, forward_latency |-> 0,
   memory_usage |-> 0, throughput |-> [num |-> 0, den |-> 1],
   workload |-> [num |-> 0, den |-> 1]]

NoOccupancy == [num |-> 0, den |-> 0]

\* min_duty_cycle + fwd_lat + preprocess + postprocess > latency_sla_us, with
\* min_duty_cycle = (batch - 1) * 1e6 / workload and workload > 0
ExceedsSla(p, sla_us, workload, batch) ==
  (batch - 1) * 1000000 >
    (sla_us - GetForwardLatency(p, batch) - GetPreprocessLatency(p)
            - GetPostprocessLatency(p)) * workload

\* the for loop: the value of batch when the loop is left
RECURSIVE ResidueLoop(_, _, _, _, _)
ResidueLoop(p, sla_us, workload, max_batch, batch) ==
  IF batch <= max_batch
  THEN IF ExceedsSla(p, sla_us, workload, batch)
       THEN batch
       ELSE ResidueLoop(p, sla_us, workload, max_batch, batch + 1)
  ELSE batch

\* SaturatingPlan, were the latency of a single input taken for the batch's
SaturatingPlanOfOne(p, sla_ms, max_batch, max_throughput) ==
  [kind |-> "ok",
   config |-> [latency_sla |-> sla_ms,
               batch |-> max_batch,
               max_batch |-> max_batch,
               forward_latency |-> GetForwardLatency(p, 1),
               memory_usage |-> GetForwardLatency(p, 1),
               throughput |-> [num |-> max_throughput, den |-> 1],
               workload |-> [num |-> max_throughput, den |-> 1]],
   occupancy |-> [num |-> 1, den |-> 1]]

\* workload can saturate the gpu
SaturatingPlan(p, sla_ms, max_batch, max_throughput) ==
  LET fwd_latency == GetForwardLatency(p, max_batch)
      memory_usage == GetMemoryUsage(p, max_batch)
  IN  IF fwd_latency = OutOfRange \/ memory_usage = OutOfRange
      THEN [kind |-> "ProfileOutOfRange", config |-> EmptyConfig,
            occupancy |-> NoOccupancy]
      ELSE [kind |-> "ok",
            config |-> [latency_sla |-> sla_ms,
                        batch |-> max_batch,
                        max_batch |-> max_batch,
                        forward_latency |-> fwd_latency,
                        memory_usage |-> fwd_latency,
                        throughput |-> [num |-> max_throughput, den |-> 1],
                        workload |-> [num |-> max_throughput, den |-> 1]],
            occupancy |-> [num |-> 1, den |-> 1]]

\* ResiduePlan, were the batch the loop stopped at not stepped back
ResiduePlanNoStepBack(p, sla_ms, workload, max_batch) ==
  LET sla_us == sla_ms * 1000
      preprocess == GetPreprocessLatency(p)
      postprocess == GetPostprocessLatency(p)
      batch == Min({ResidueLoop(p, sla_us, workload, max_batch, 1), max_batch})
      fwd_lat == GetForwardLatency(p, batch)
      duty_cycle == sla_us - fwd_lat - preprocess - postprocess
  IN  [kind |-> "ok",
       config |-> [latency_sla |-> sla_ms,
                   batch |-> batch,
                   max_batch |-> max_batch,
                   forward_latency |-> fwd_lat,
                   memory_usage |-> GetMemoryUsage(p, batch),
                   throughput |-> [num |-> batch * 1000000, den |-> duty_cycle],
                   workload |-> [num |-> workload, den |-> 1]],
       occupancy |-> [num |-> fwd_lat, den |-> duty_cycle]]

\* 2. Compute the max batch for residue load
ResiduePlan(p, sla_ms, workload, max_batch) ==
  LET sla_us == sla_ms * 1000
      preprocess == GetPreprocessLatency(p)
      postprocess == GetPostprocessLatency(p)
      batch == ResidueLoop(p, sla_us, workload, max_batch, 1) - 1
  IN  IF batch = 0
      THEN [kind |-> "ok",
            config |-> [EmptyConfig EXCEPT !.latency_sla = sla_ms],
            occupancy |-> NoOccupancy]
      ELSE LET fwd_lat == GetForwardLatency(p, batch)
               duty_cycle == sla_us - fwd_lat - preprocess - postprocess
           IN  [kind |-> "ok",
                config |-> [latency_sla |-> sla_ms,
                            batch |-> batch,
                            max_batch |-> max_batch,
                            forward_latency |-> fwd_lat,
                            memory_usage |-> GetMemoryUsage(p, batch),
                            throughput |-> [num |-> batch * 1000000,
                                            den |-> duty_cycle],
                            workload |-> [num |-> workload, den |-> 1]],
                occupancy |-> [num |-> fwd_lat, den |-> duty_cycle]]

PrepareLoadModel(p, exec_cycle, sla_ms, workload) ==
  IF ~p.present
  THEN [kind |-> "ok", config |-> EmptyConfig, occupancy |-> NoOccupancy]
  ELSE LET mt == GetMaxThroughput(p, sla_ms)
           max_batch == mt[1]
           max_throughput == mt[2]
       IN  IF exec_cycle = 0
           THEN IF workload = 0 \/ max_throughput <= workload
                THEN SaturatingPlan(p, sla_ms, max_batch, max_throughput)
                ELSE ResiduePlan(p, sla_ms, workload, max_batch)
           ELSE [kind |-> "ok",
                 config |-> [EmptyConfig EXCEPT !.latency_sla = sla_ms],
                 occupancy |-> NoOccupancy]

----------------------------------------------------------------------------
(* The scheduler's record of one backend. *)

NoPlan ==
  [called |-> FALSE, sla_ms |-> 0, workload |-> 0, exec_cycle |-> 0,
   ret |-> [kind |-> "ok", config |-> EmptyConfig, occupancy |-> NoOccupancy]]

\* no operation on the record yet, or time passing
NoCall == [op |-> "none", rpcs |-> 0, sent |-> <<>>, ret |-> "none"]

\* a call that issues no RPC and returns nothing
VoidCall(op) == [NoCall EXCEPT !.op = op]

\* no UpdateModelTable RPC is outstanding
NoRequest == [pending |-> FALSE, table |-> <<>>]

\* std::lock_guard<std::mutex> lock(mutex_), were the mutex not waited for
LockGuardNoWait(held) == TRUE

\* std::lock_guard<std::mutex> lock(mutex_): the thread goes on when the mutex
\* is free
LockGuard(held) == ~held

\* the constructor: exec_cycle_us_(0.), duty_cycle_us_(0.), dirty_model_table_(false),
\* last_time_ = now
InitSched ==
  /\ profile \in Profiles \cup {NoProfile}
  /\ exec_cycle_us = 0
  /\ duty_cycle_us = 0
  /\ model_table_config = <<>>
  /\ dirty_model_table = FALSE
  /\ plan = NoPlan
  /\ sched_state = "running"
  /\ wall = 0
  /\ last_time = 0
  /\ call = NoCall
  /\ mutex_ = FALSE
  /\ request = NoRequest
  /\ acked = <<>>

\* a call of PrepareLoadModel(model_sess, workload, &config, &occupancy) with
\* a fresh config; the record is only read
PrepareLoadModelCall(sla_ms, workload) ==
  /\ UNCHANGED execVars
  /\ LockGuard(mutex_)
  /\ UNCHANGED <<mutex_, request, acked>>
  /\ sched_state = "running"
  /\ plan' = [called |-> TRUE, sla_ms |-> sla_ms, workload |-> workload,
              exec_cycle |-> exec_cycle_us,
              ret |-> PrepareLoadModel(profile, exec_cycle_us, sla_ms, workload)]
  /\ call' = VoidCall("PrepareLoadModel")
  /\ UNCHANGED <<profile, exec_cycle_us, duty_cycle_us, model_table_config,
                 dirty_model_table, sched_state, last_time, wall>>

\* LoadModelConfig, were the backend not asked whether it is idle
LoadModelConfigUnchecked ==
  /\ UNCHANGED execVars
  /\ LockGuard(mutex_)
  /\ UNCHANGED <<mutex_, request, acked>>
  /\ sched_state = "running"
  /\ plan.called /\ plan.ret.kind = "ok" /\ plan.ret.config.batch > 0
  /\ Len(model_table_config) < MaxModels
  /\ LET config == plan.ret.config
     IN  /\ exec_cycle_us' = config.forward_latency
         /\ duty_cycle_us' = config.latency_sla * 1000 - config.forward_latency
         /\ model_table_config' = Append(model_table_config, config)
         /\ dirty_model_table' = TRUE
  /\ call' = VoidCall("LoadModel")
  /\ UNCHANGED <<profile, plan, sched_state, last_time, wall>>

\* LoadModel(const ModelInstanceConfig&), called with the config the last
\* PrepareLoadModel gave when its batch is not 0
LoadModelConfig ==
  /\ UNCHANGED execVars
  /\ LockGuard(mutex_)
  /\ UNCHANGED <<mutex_, request, acked>>
  /\ sched_state = "running"
  /\ plan.called /\ plan.ret.kind = "ok" /\ plan.ret.config.batch > 0
  /\ LET config == plan.ret.config
     IN  IF exec_cycle_us > 0
         THEN UNCHANGED <<exec_cycle_us, duty_cycle_us, model_table_config,
                          dirty_model_table>>
         ELSE /\ exec_cycle_us' = config.forward_latency
              /\ duty_cycle_us' = config.latency_sla * 1000 - config.forward_latency
              /\ model_table_config' = Append(model_table_config, config)
              /\ dirty_model_table' = TRUE
  /\ call' = VoidCall("LoadModel")
  /\ UNCHANGED <<profile, plan, sched_state, last_time, wall>>

\* the throughput and workload of every config of the table recomputed
Rethroughput(table, duty_cycle) ==
  [i \in 1..Len(table) |->
     [table[i] EXCEPT !.throughput = [num |-> table[i].batch * 1000000,
                                      den |-> duty_cycle],
                      !.workload = [num |-> table[i].batch * 1000000,
                                    den |-> duty_cycle]]]

\* what a read through the null profile pointer may give, if it gives anything
Indeterminate == {0, 1000}

\* LoadModelStaticWith, were the duty cycle left out of the update
LoadModelStaticWithoutDuty(sla_ms, batch, memory_usage, fwd_latency) ==
  LET max_batch == batch
      config == [latency_sla |-> sla_ms, batch |-> batch,
                 max_batch |-> max_batch, memory_usage |-> memory_usage,
                 forward_latency |-> fwd_latency,
                 throughput |-> [num |-> 0, den |-> 1],
                 workload |-> [num |-> 0, den |-> 1]]
  IN  /\ LockGuard(mutex_)
      /\ exec_cycle_us' = exec_cycle_us + fwd_latency
      /\ duty_cycle_us' = duty_cycle_us
      /\ model_table_config' =
           Rethroughput(Append(model_table_config, config), duty_cycle_us)
      /\ dirty_model_table' = TRUE
      /\ call' = VoidCall("LoadModelStatic")
      /\ UNCHANGED <<profile, plan, sched_state>>

\* LoadModelStaticWith, were the cycles assigned and not added to
LoadModelStaticWithAssign(sla_ms, batch, memory_usage, fwd_latency) ==
  LET max_batch == batch
      config == [latency_sla |-> sla_ms, batch |-> batch,
                 max_batch |-> max_batch, memory_usage |-> memory_usage,
                 forward_latency |-> fwd_latency,
                 throughput |-> [num |-> 0, den |-> 1],
                 workload |-> [num |-> 0, den |-> 1]]
  IN  /\ LockGuard(mutex_)
      /\ exec_cycle_us' = fwd_latency
      /\ duty_cycle_us' = fwd_latency
      /\ model_table_config' =
           Rethroughput(Append(model_table_config, config), fwd_latency)
      /\ dirty_model_table' = TRUE
      /\ call' = VoidCall("LoadModelStatic")
      /\ UNCHANGED <<profile, plan, sched_state>>

\* LoadModel(const YAML::Node&) from line 152 on: the config is filled and,
\* under the mutex, appended; both cycles grow by fwd_latency and every
\* config's throughput and workload are recomputed
LoadModelStaticWith(sla_ms, batch, memory_usage, fwd_latency) ==
  LET max_batch == batch
      config == [latency_sla |-> sla_ms, batch |-> batch,
                 max_batch |-> max_batch, memory_usage |-> memory_usage,
                 forward_latency |-> fwd_latency,
                 throughput |-> [num |-> 0, den |-> 1],
                 workload |-> [num |-> 0, den |-> 1]]
  IN  /\ LockGuard(mutex_)
      /\ exec_cycle_us' = exec_cycle_us + fwd_latency
      /\ duty_cycle_us' = duty_cycle_us + fwd_latency
      /\ model_table_config' =
           Rethroughput(Append(model_table_config, config),
                        duty_cycle_us + fwd_latency)
      /\ dirty_model_table' = TRUE
      /\ call' = VoidCall("LoadModelStatic")
      /\ UNCHANGED <<profile, plan, sched_state>>

\* LoadModel(const YAML::Node&): the static workload loader.  The profile
\* pointer is dereferenced unchecked (lines 150-151).  Without a profile that
\* is undefined behaviour: the process crashes, or the reads give anything and
\* the load goes on.  With a profile, a batch out of its table fails the
\* query, before the record is touched.
LoadModelStatic(sla_ms, batch) ==
  /\ UNCHANGED execVars
  /\ sched_state = "running"
  /\ Len(model_table_config) < MaxModels
  /\ UNCHANGED <<last_time, wall, mutex_, request, acked>>
  /\ IF ~profile.present
     THEN \/ /\ sched_state' = "crashed"
             /\ call' = VoidCall("LoadModelStatic")
             /\ UNCHANGED <<profile, exec_cycle_us, duty_cycle_us,
                            model_table_config, dirty_model_table, plan>>
          \/ \E memory_usage \in Indeterminate, fwd_latency \in Indeterminate :
               LoadModelStaticWith(sla_ms, batch, memory_usage, fwd_latency)
     ELSE LET memory_usage == GetMemoryUsage(profile, batch)
              fwd_latency == GetForwardLatency(profile, batch)
          IN  IF memory_usage = OutOfRange \/ fwd_latency = OutOfRange
              THEN /\ call' = [VoidCall("LoadModelStatic") EXCEPT
                                 !.ret = "ProfileOutOfRange"]
                   /\ UNCHANGED <<profile, exec_cycle_us, duty_cycle_us,
                                  model_table_config, dirty_model_table, plan,
                                  sched_state>>
              ELSE LoadModelStaticWith(sla_ms, batch, memory_usage, fwd_latency)

----------------------------------------------------------------------------
(* Table distribution and liveness of the backend record. *)

\* the wall clock runs from 0 to MaxWall seconds
MaxWall == 3
\* timeout_, in seconds
Timeout == 2

\* reply.status() of the backend: CTRL_OK, or a status that is not
Replies == {"CTRL_OK", "CTRL_SERVER_NOT_REGISTERED"}

\* UpdateModelTable, were dirty_model_table_ cleared by any reply that arrives
UpdateModelTableAnyReply ==
  /\ UNCHANGED execVars
  /\ LockGuard(mutex_)
  /\ UNCHANGED <<mutex_, request>>
  /\ sched_state = "running"
  /\ IF ~dirty_model_table
     THEN /\ call' = [op |-> "UpdateModelTable", rpcs |-> 0, sent |-> <<>>,
                      ret |-> "CTRL_OK"]
          /\ UNCHANGED <<dirty_model_table, last_time, wall, acked>>
     ELSE \E status_ok \in BOOLEAN, reply \in Replies, dt \in 0..1 :
            /\ wall + dt <= MaxWall
            /\ wall' = wall + dt
            /\ call' = [op |-> "UpdateModelTable", rpcs |-> 1,
                        sent |-> model_table_config,
                        ret |-> IF status_ok THEN reply
                                ELSE "CTRL_SERVER_UNREACHABLE"]
            /\ last_time' = IF status_ok THEN wall + dt ELSE last_time
            /\ dirty_model_table' = IF status_ok THEN FALSE ELSE dirty_model_table
            /\ acked' = IF status_ok /\ reply = "CTRL_OK"
                       THEN model_table_config ELSE acked
  /\ UNCHANGED <<profile, exec_cycle_us, duty_cycle_us, model_table_config, plan,
                 sched_state>>

\* UpdateModelTable.  The mutex is held from the first line to the return, the
\* RPC included, so the call is one step; dt is the time the RPC takes.
UpdateModelTable ==
  /\ UNCHANGED execVars
  /\ LockGuard(mutex_)
  /\ UNCHANGED <<mutex_, request>>
  /\ sched_state = "running"
  /\ IF ~dirty_model_table
     THEN /\ call' = [op |-> "UpdateModelTable", rpcs |-> 0, sent |-> <<>>,
                      ret |-> "CTRL_OK"]
          /\ UNCHANGED <<dirty_model_table, last_time, wall, acked>>
     ELSE \E status_ok \in BOOLEAN, reply \in Replies, dt \in 0..1 :
            /\ wall + dt <= MaxWall
            /\ wall' = wall + dt
            /\ call' = [op |-> "UpdateModelTable", rpcs |-> 1,
                        sent |-> model_table_config,
                        ret |-> IF status_ok THEN reply
                                ELSE "CTRL_SERVER_UNREACHABLE"]
            /\ last_time' = IF status_ok THEN wall + dt ELSE last_time
            /\ dirty_model_table' =
                 IF status_ok /\ reply = "CTRL_OK" THEN FALSE ELSE dirty_model_table
            /\ acked' = IF status_ok /\ reply = "CTRL_OK"
                       THEN model_table_config ELSE acked
  /\ UNCHANGED <<profile, exec_cycle_us, duty_cycle_us, model_table_config, plan,
                 sched_state>>

\* UpdateStats: the stats are not read
UpdateStats ==
  /\ UNCHANGED execVars
  /\ LockGuard(mutex_)
  /\ UNCHANGED <<mutex_, request, acked>>
  /\ sched_state = "running"
  /\ last_time' = wall
  /\ call' = VoidCall("UpdateStats")
  /\ UNCHANGED <<profile, exec_cycle_us, duty_cycle_us, model_table_config,
                 dirty_model_table, plan, sched_state, wall>>

\* IsAlive, were last_time_ refreshed whether or not the backend answered
IsAliveRefreshesAlways ==
  /\ UNCHANGED execVars
  /\ LockGuard(mutex_)
  /\ UNCHANGED <<mutex_, request, acked>>
  /\ sched_state = "running"
  /\ LET elapse == wall - last_time
     IN  IF elapse < Timeout
         THEN /\ call' = [op |-> "IsAlive", rpcs |-> 0, sent |-> <<>>, ret |-> "true"]
              /\ UNCHANGED <<last_time, wall>>
         ELSE \E status_ok \in BOOLEAN, dt \in 0..1 :
                /\ wall + dt <= MaxWall
                /\ wall' = wall + dt
                /\ call' = [op |-> "IsAlive", rpcs |-> 1, sent |-> <<>>,
                            ret |-> IF status_ok THEN "true" ELSE "false"]
                /\ last_time' = wall + dt
  /\ UNCHANGED <<profile, exec_cycle_us, duty_cycle_us, model_table_config,
                 dirty_model_table, plan, sched_state>>

\* IsAlive.  One step, as the mutex is held throughout; dt is the time the
\* CheckAlive RPC takes.
IsAlive ==
  /\ UNCHANGED execVars
  /\ LockGuard(mutex_)
  /\ UNCHANGED <<mutex_, request, acked>>
  /\ sched_state = "running"
  /\ LET elapse == wall - last_time
     IN  IF elapse < Timeout
         THEN /\ call' = [op |-> "IsAlive", rpcs |-> 0, sent |-> <<>>, ret |-> "true"]
              /\ UNCHANGED <<last_time, wall>>
         ELSE \E status_ok \in BOOLEAN, dt \in 0..1 :
                /\ wall + dt <= MaxWall
                /\ wall' = wall + dt
                /\ call' = [op |-> "IsAlive", rpcs |-> 1, sent |-> <<>>,
                            ret |-> IF status_ok THEN "true" ELSE "false"]
                /\ last_time' = IF status_ok THEN wall + dt ELSE last_time
  /\ UNCHANGED <<profile, exec_cycle_us, duty_cycle_us, model_table_config,
                 dirty_model_table, plan, sched_state>>

\* a second of wall-clock time passes
WallTick ==
  /\ UNCHANGED execVars
  /\ UNCHANGED <<mutex_, request, acked>>
  /\ wall < MaxWall
  /\ wall' = wall + 1
  /\ call' = NoCall
  /\ UNCHANGED <<profile, exec_cycle_us, duty_cycle_us, model_table_config,
                 dirty_model_table, plan, sched_state, last_time>>

----------------------------------------------------------------------------
(* The executor: one ModelExecutor, model_exec.cpp. *)

\* Task objects the ingress layer creates in a run
NTasks == 2
\* inputs of one task: 0..MaxInputs
MaxInputs == 2
\* the clock runs from 0 to MaxTime ticks
MaxTime == 1
\* calls of Execute in a run
MaxExec == 3
\* clock ticks in a microsecond
TicksPerUs == 2

Objs == 1..NTasks
Tids == {1, 2}
\* deadlines of tasks, in ticks
Deadlines == {2, 5}
NoTask == 0

\* the profile of the executor's GPU: forward(b) is b microseconds and one tick,
\* in ticks
ExecProfile ==
  [fwd |-> [b \in 1..MaxKnownBatch |-> b * TicksPerUs + 1],
   mem |-> [b \in 1..MaxKnownBatch |-> MemoryOf(b)],
   pre |-> 0, post |-> 0, present |-> TRUE]

\* the configs a load operation of the scheduler puts into a model table
LoadableConfigs ==
  { c \in { PrepareLoadModel(p, 0, s, w).config :
              p \in Profiles, s \in SlaMs, w \in Workloads } : c.batch > 0 }
  \cup { [EmptyConfig EXCEPT !.batch = b, !.max_batch = b] : b \in 1..MaxKnownBatch }

\* what the backend's ModelInstance keeps of its config
ExecModels == { [batch |-> c.batch, max_batch |-> c.max_batch] : c \in LoadableConfigs }

BlankTask ==
  [added |-> FALSE, tid |-> 0, deadline |-> 0, ninputs |-> 0, status |-> "CTRL_OK",
   stage |-> "none", outputs |-> <<>>, filled |-> 0]

NoBatch ==
  [batch_id |-> 0, max_batch |-> 0, inputs |-> <<>>, tasks |-> <<>>,
   outputs |-> 0, pops |-> {}]

NoHist ==
  [dup |-> FALSE, calls |-> <<>>, last_produced |-> <<>>, t0 |-> 0]

\* the constructor: batch_id_(0), profile_ looked up, nothing queued
InitExec ==
  /\ model \in ExecModels
  /\ has_profile \in BOOLEAN
  /\ tasks = [o \in Objs |-> BlankTask]
  /\ next_obj = 1
  /\ processing_tasks = [t \in Tids |-> NoTask]
  /\ input_queue = {}
  /\ task_queue = <<>>
  /\ batch_id_ = 0
  /\ mu = FALSE
  /\ pc = "idle"
  /\ batch_task = NoBatch
  /\ batch_size = 0
  /\ finish = 0
  /\ removing = NoTask
  /\ now = 0
  /\ hist = NoHist

\* the inputs of a task: one per index, each with the task's tid and deadline
\* (obj names the Task object they were made from; the code's Input holds no
\* such pointer)
InputsOf(o, t) ==
  { [obj |-> o, tid |-> t.tid, index |-> i, deadline |-> t.deadline] :
    i \in 1..t.ninputs }

\* Task::AddOutput and Task::AddVirtualOutput say whether the task's output set
\* is complete
Complete(filled, ninputs) == filled = ninputs

\* Task::AddOutput(output) / Task::AddVirtualOutput(index): the output stored at
\* its index and counted.  An index the task does not have is met only after a
\* duplicate task id; it is counted and stored nowhere.
WithOutput(t, index, kind) ==
  [t EXCEPT !.outputs = IF index \in DOMAIN t.outputs
                        THEN [t.outputs EXCEPT ![index] = kind]
                        ELSE t.outputs,
            !.filled = t.filled + 1]

\* ModelExecutor::AddTask
AddTask(tid, ninputs, deadline) ==
  /\ UNCHANGED schedVars
  /\ next_obj <= NTasks
  /\ next_obj = 1 => tid = Min(Tids)
  /\ ~mu
  /\ LET o == next_obj
         t == [added |-> TRUE, tid |-> tid, deadline |-> deadline,
               ninputs |-> ninputs, status |-> "CTRL_OK", stage |-> "execute",
               outputs |-> [i \in 1..ninputs |-> "none"], filled |-> 0]
     IN  /\ tasks' = [tasks EXCEPT ![o] = t]
         /\ processing_tasks' =
              IF processing_tasks[tid] = NoTask
              THEN [processing_tasks EXCEPT ![tid] = o]
              ELSE processing_tasks
         /\ input_queue' = input_queue \cup InputsOf(o, t)
         /\ hist' = [hist EXCEPT !.dup = hist.dup \/ processing_tasks[tid] # NoTask]
  /\ next_obj' = next_obj + 1
  /\ UNCHANGED <<model, has_profile, task_queue, batch_id_, mu, pc, batch_task,
                 batch_size, finish, removing, now>>

\* RemoveTask, were the erase of line 101 left out
RemoveTaskKeepsEntry(ts, o) ==
  /\ tasks' = [ts EXCEPT ![o].stage = "postprocess"]
  /\ task_queue' = Append(task_queue, o)
  /\ UNCHANGED processing_tasks

\* ModelExecutor::RemoveTask(task), on the tasks ts
RemoveTask(ts, o) ==
  /\ tasks' = [ts EXCEPT ![o].stage = "postprocess"]
  /\ task_queue' = Append(task_queue, o)
  /\ processing_tasks' = [processing_tasks EXCEPT ![ts[o].tid] = NoTask]

\* FetchAdd, were the counter read without being advanced for the caller
FetchAddStale(counter) == 0

\* batch_id_.fetch_add(1): the value it returns
FetchAdd(counter) == counter

\* Execute, lines 26-28: the batch id and the BatchTask
ExecuteBegin ==
  /\ UNCHANGED schedVars
  /\ pc = "idle"
  /\ batch_id_ < MaxExec
  /\ batch_id_' = batch_id_ + 1
  /\ batch_task' = [NoBatch EXCEPT !.batch_id = FetchAdd(batch_id_),
                                   !.max_batch = model.max_batch]
  /\ hist' = [hist EXCEPT !.calls = Append(hist.calls, FetchAdd(batch_id_))]
  /\ pc' = "get"
  /\ UNCHANGED <<model, has_profile, tasks, next_obj, processing_tasks, input_queue,
                 task_queue, mu, batch_size, finish, removing, now>>

\* BatchSize, were the cap of lines 70-72 left out
BatchSizeUncapped(queue_size, batch) == queue_size

\* GetBatchInput, lines 69-72
BatchSize(queue_size, batch) == IF queue_size > batch THEN batch ELSE queue_size

\* std::chrono::microseconds(int(latency)), in ticks
IntLatency(latency) == (latency \div TicksPerUs) * TicksPerUs

\* GetBatchInput, lines 68-77.  A forward_latency query out of the table fails:
\* the exception leaves GetBatchInput (the lock is released) and Execute.
GetBatchInputEnter ==
  /\ UNCHANGED schedVars
  /\ pc = "get"
  /\ ~mu
  /\ LET n == BatchSize(Cardinality(input_queue), model.batch)
         latency == GetForwardLatency(ExecProfile, n)
     IN  IF has_profile /\ latency = OutOfRange
         THEN /\ pc' = "thrown"
              /\ UNCHANGED <<mu, batch_size, finish, hist, batch_task>>
         ELSE /\ mu' = TRUE
              /\ batch_size' = n
              /\ finish' = IF has_profile THEN now + IntLatency(latency) ELSE 0
              /\ hist' = [hist EXCEPT !.t0 = now]
              /\ pc' = "loop"
              /\ UNCHANGED batch_task
  /\ UNCHANGED <<model, has_profile, tasks, next_obj, processing_tasks, input_queue,
                 task_queue, batch_id_, removing, now>>

\* Top, were the queue not ordered by deadline
TopAny(queue) == queue

\* input_queue_.top(): an input of the earliest deadline
Top(queue) == { in \in queue : \A other \in queue : in.deadline <= other.deadline }

\* Dropped, were the task's status not looked at
DroppedByDeadlineOnly(task, in) == has_profile /\ in.deadline < finish

\* line 83-84: the input is dropped
Dropped(task, in) ==
  \/ task.status # "CTRL_OK"
  \/ has_profile /\ in.deadline < finish

\* GetBatchInput, one turn of the loop, lines 78-93
GetBatchInputPop ==
  /\ UNCHANGED schedVars
  /\ pc = "loop"
  /\ Len(batch_task.inputs) < batch_size /\ input_queue # {}
  /\ \E in \in Top(input_queue) :
       LET o == processing_tasks[in.tid]
           pop == [in |-> in, ok |-> tasks[o].status = "CTRL_OK", to |-> o,
                   appended |-> ~Dropped(tasks[o], in),
                   min_deadline |-> Min({ q.deadline : q \in input_queue })]
       IN  /\ input_queue' = input_queue \ {in}
           /\ IF o = NoTask
              THEN \* processing_tasks_.at throws: the lock is released
                   /\ pc' = "thrown"
                   /\ mu' = FALSE
                   /\ batch_task' = [batch_task EXCEPT !.pops = {}]
                   /\ batch_size' = 0
                   /\ finish' = 0
                   /\ hist' = [hist EXCEPT !.t0 = 0]
                   /\ UNCHANGED <<tasks, removing>>
              ELSE IF Dropped(tasks[o], in)
              THEN /\ tasks' = [tasks EXCEPT ![o] = WithOutput(@, in.index, "virtual")]
                   /\ batch_task' = [batch_task EXCEPT !.pops = @ \cup {pop}]
                   /\ IF Complete(tasks'[o].filled, tasks[o].ninputs)
                      THEN /\ mu' = FALSE
                           /\ removing' = o
                           /\ pc' = "remove"
                      ELSE UNCHANGED <<mu, removing, pc>>
                   /\ UNCHANGED <<batch_size, finish, hist>>
              ELSE /\ batch_task' = [batch_task EXCEPT
                                       !.inputs = Append(@, in),
                                       !.tasks = Append(@, o),
                                       !.pops = @ \cup {pop}]
                   /\ UNCHANGED <<tasks, mu, removing, pc, batch_size, finish, hist>>
  /\ UNCHANGED <<model, has_profile, next_obj, processing_tasks, task_queue,
                 batch_id_, now>>

\* lines 86-87: RemoveTask(task) with the lock released
GetBatchInputRemove ==
  /\ UNCHANGED schedVars
  /\ pc = "remove"
  /\ ~mu
  /\ RemoveTask(tasks, removing)
  /\ removing' = NoTask
  /\ pc' = "relock"
  /\ UNCHANGED <<model, has_profile, next_obj, input_queue, batch_id_, mu,
                 batch_task, batch_size, finish, now, hist>>

\* line 88: lock.lock()
GetBatchInputRelock ==
  /\ UNCHANGED schedVars
  /\ pc = "relock"
  /\ ~mu
  /\ mu' = TRUE
  /\ pc' = "loop"
  /\ UNCHANGED <<model, has_profile, tasks, next_obj, processing_tasks, input_queue,
                 task_queue, batch_id_, batch_task, batch_size, finish, removing,
                 now, hist>>

\* GetBatchInputExit, were the lock kept until Forward has returned
GetBatchInputExitKeepsLock ==
  /\ UNCHANGED schedVars
  /\ pc = "loop"
  /\ ~(Len(batch_task.inputs) < batch_size /\ input_queue # {})
  /\ mu' = (Len(batch_task.inputs) # 0)
  /\ batch_size' = 0
  /\ finish' = 0
  /\ IF Len(batch_task.inputs) = 0
     THEN /\ pc' = "idle"
          /\ batch_task' = NoBatch
          /\ hist' = [hist EXCEPT !.t0 = 0]
     ELSE /\ pc' = "forward"
          /\ hist' = [hist EXCEPT !.t0 = 0]
          /\ batch_task' = [batch_task EXCEPT !.pops = {}]
  /\ UNCHANGED <<model, has_profile, tasks, next_obj, processing_tasks, input_queue,
                 task_queue, batch_id_, removing, now>>

\* the loop is left, line 94, and Execute goes on, lines 33-35
GetBatchInputExit ==
  /\ UNCHANGED schedVars
  /\ pc = "loop"
  /\ ~(Len(batch_task.inputs) < batch_size /\ input_queue # {})
  /\ mu' = FALSE
  /\ batch_size' = 0
  /\ finish' = 0
  /\ IF Len(batch_task.inputs) = 0
     THEN /\ pc' = "idle"
          /\ batch_task' = NoBatch
          /\ hist' = [hist EXCEPT !.t0 = 0]
     ELSE /\ pc' = "forward"
          /\ hist' = [hist EXCEPT !.t0 = 0]
          /\ batch_task' = [batch_task EXCEPT !.pops = {}]
  /\ UNCHANGED <<model, has_profile, tasks, next_obj, processing_tasks, input_queue,
                 task_queue, batch_id_, removing, now>>

\* model_->Forward(batch_task) returns: one output per input of the batch
ForwardReturns ==
  /\ UNCHANGED schedVars
  /\ pc = "forward"
  /\ batch_task' = [batch_task EXCEPT !.outputs = 1]
  /\ pc' = "fanout"
  /\ hist' = [hist EXCEPT !.last_produced = <<batch_task.batch_id>>]
  /\ UNCHANGED <<model, has_profile, tasks, next_obj, processing_tasks, input_queue,
                 task_queue, batch_id_, mu, batch_size, finish, removing, now>>

\* model_->Forward(batch_task) fails: Execute has no handler, the exception
\* leaves it.  The batch is kept until the exception has left Execute.
ForwardFails ==
  /\ UNCHANGED schedVars
  /\ pc = "forward"
  /\ pc' = "failed"
  /\ hist' = [hist EXCEPT !.last_produced = <<batch_task.batch_id>>]
  /\ UNCHANGED <<model, has_profile, tasks, next_obj, processing_tasks, input_queue,
                 task_queue, batch_id_, mu, batch_task, batch_size, finish,
                 removing, now>>

\* the exception (of Forward, or of a lookup in GetBatchInput) has left
\* Execute: its BatchTask is destroyed
ExecuteThrows ==
  /\ UNCHANGED schedVars
  /\ pc \in {"failed", "thrown"}
  /\ pc' = "idle"
  /\ batch_task' = NoBatch
  /\ UNCHANGED <<model, has_profile, tasks, next_obj, processing_tasks, input_queue,
                 task_queue, batch_id_, mu, batch_size, finish, removing, now, hist>>

\* one turn of the loop of lines 58-64: output i goes to its task
Fanout ==
  /\ UNCHANGED schedVars
  /\ pc = "fanout"
  /\ LET i == batch_task.outputs
         o == batch_task.tasks[i]
         index == batch_task.inputs[i].index
         ts == [tasks EXCEPT ![o] = WithOutput(@, index, "real")]
     IN  /\ IF Complete(ts[o].filled, ts[o].ninputs)
            THEN RemoveTask(ts, o)
            ELSE /\ tasks' = ts
                 /\ UNCHANGED <<task_queue, processing_tasks>>
         /\ IF i = Len(batch_task.tasks)
            THEN /\ pc' = "idle"
                 /\ batch_task' = NoBatch
            ELSE /\ pc' = "fanout"
                 /\ batch_task' = [batch_task EXCEPT !.outputs = i + 1]
  /\ UNCHANGED <<model, has_profile, next_obj, input_queue, batch_id_, mu,
                 batch_size, finish, removing, now, hist>>

\* RemoveTask, lines 98-100: the lock is taken, the stage set and the task
\* pushed into the shared queue, where a worker can take it
RemoveTaskPush(ts, o) ==
  /\ tasks' = [ts EXCEPT ![o].stage = "postprocess"]
  /\ task_queue' = Append(task_queue, o)
  /\ mu' = TRUE
  /\ removing' = o
  /\ UNCHANGED processing_tasks

\* RemoveTask, line 101 and the return: task->tid is read, the entry erased
\* and the lock released
RemoveTaskErase ==
  /\ processing_tasks' = [processing_tasks EXCEPT ![tasks[removing].tid] = NoTask]
  /\ mu' = FALSE
  /\ removing' = NoTask
  /\ UNCHANGED <<tasks, task_queue>>

\* lines 86-87, as far as the push of RemoveTask
GetBatchInputRemovePush ==
  /\ UNCHANGED schedVars
  /\ pc = "remove"
  /\ ~mu
  /\ RemoveTaskPush(tasks, removing)
  /\ pc' = "remove_erase"
  /\ UNCHANGED <<model, has_profile, next_obj, input_queue, batch_id_, batch_task,
                 batch_size, finish, now, hist>>

\* line 87, the rest of RemoveTask
GetBatchInputRemoveErase ==
  /\ UNCHANGED schedVars
  /\ pc = "remove_erase"
  /\ RemoveTaskErase
  /\ pc' = "relock"
  /\ UNCHANGED <<model, has_profile, next_obj, input_queue, batch_id_, batch_task,
                 batch_size, finish, now, hist>>

\* one turn of the loop of lines 58-64, as far as the push of RemoveTask
FanoutAttach ==
  /\ UNCHANGED schedVars
  /\ pc = "fanout"
  /\ ~mu
  /\ LET i == batch_task.outputs
         o == batch_task.tasks[i]
         index == batch_task.inputs[i].index
         ts == [tasks EXCEPT ![o] = WithOutput(@, index, "real")]
     IN  IF Complete(ts[o].filled, ts[o].ninputs)
         THEN /\ RemoveTaskPush(ts, o)
              /\ pc' = "fanout_erase"
              /\ UNCHANGED batch_task
         ELSE /\ tasks' = ts
              /\ UNCHANGED <<task_queue, processing_tasks, mu, removing>>
              /\ IF i = Len(batch_task.tasks)
                 THEN /\ pc' = "idle"
                      /\ batch_task' = NoBatch
                 ELSE /\ pc' = "fanout"
                      /\ batch_task' = [batch_task EXCEPT !.outputs = i + 1]
  /\ UNCHANGED <<model, has_profile, next_obj, input_queue, batch_id_,
                 batch_size, finish, now, hist>>

\* line 62, the rest of RemoveTask, and the loop goes on
FanoutErase ==
  /\ UNCHANGED schedVars
  /\ pc = "fanout_erase"
  /\ RemoveTaskErase
  /\ LET i == batch_task.outputs
     IN  IF i = Len(batch_task.tasks)
         THEN /\ pc' = "idle"
              /\ batch_task' = NoBatch
         ELSE /\ pc' = "fanout"
              /\ batch_task' = [batch_task EXCEPT !.outputs = i + 1]
  /\ UNCHANGED <<model, has_profile, next_obj, input_queue, batch_id_,
                 batch_size, finish, now, hist>>

\* a task the executor holds turns non-OK (specification, section 5)
TaskFails(o) ==
  /\ UNCHANGED schedVars
  /\ tasks[o].added /\ tasks[o].stage = "execute" /\ tasks[o].status = "CTRL_OK"
  /\ tasks' = [tasks EXCEPT ![o].status = "FAILED"]
  /\ UNCHANGED <<model, has_profile, next_obj, processing_tasks, input_queue,
                 task_queue, batch_id_, mu, pc, batch_task, batch_size, finish,
                 removing, now, hist>>

\* time passes
Tick ==
  /\ UNCHANGED schedVars
  /\ now < MaxTime
  /\ now' = now + 1
  /\ UNCHANGED <<model, has_profile, tasks, next_obj, processing_tasks, input_queue,
                 task_queue, batch_id_, mu, pc, batch_task, batch_size, finish,
                 removing, hist>>

----------------------------------------------------------------------------
(* The specifications. *)

\* the executor, with the scheduler's record left as constructed
Init ==
  /\ InitExec
  /\ profile = NoProfile
  /\ exec_cycle_us = 0
  /\ duty_cycle_us = 0
  /\ model_table_config = <<>>
  /\ dirty_model_table = FALSE
  /\ plan = NoPlan
  /\ sched_state = "running"
  /\ wall = 0
  /\ last_time = 0
  /\ call = NoCall
  /\ mutex_ = FALSE
  /\ request = NoRequest
  /\ acked = <<>>

Next ==
  \/ \E tid \in Tids, ninputs \in 0..MaxInputs, deadline \in Deadlines :
       AddTask(tid, ninputs, deadline)
  \/ ExecuteBegin
  \/ GetBatchInputEnter
  \/ GetBatchInputPop
  \/ GetBatchInputRemove
  \/ GetBatchInputRelock
  \/ GetBatchInputExit
  \/ ForwardReturns
  \/ ForwardFails
  \/ ExecuteThrows
  \/ Fanout
  \/ \E o \in Objs : TaskFails(o)
  \/ Tick

Spec == Init /\ [][Next]_vars

\* the scheduler's record of a backend, with no executor running
SchedInit ==
  /\ InitSched
  /\ model = [batch |-> 0, max_batch |-> 0]
  /\ has_profile = FALSE
  /\ tasks = [o \in Objs |-> BlankTask]
  /\ next_obj = 1
  /\ processing_tasks = [t \in Tids |-> NoTask]
  /\ input_queue = {}
  /\ task_queue = <<>>
  /\ batch_id_ = 0
  /\ mu = FALSE
  /\ pc = "idle"
  /\ batch_task = NoBatch
  /\ batch_size = 0
  /\ finish = 0
  /\ removing = NoTask
  /\ now = 0
  /\ hist = NoHist

SchedNext ==
  \/ \E sla_ms \in SlaMs, workload \in Workloads :
       PrepareLoadModelCall(sla_ms, workload)
  \/ LoadModelConfig
  \/ \E sla_ms \in SlaMs, batch \in 0..MaxKnownBatch + 1 :
       LoadModelStatic(sla_ms, batch)

SchedSpec == SchedInit /\ [][SchedNext]_vars

\* the backend record with its table distribution and liveness operations, for
\* one profile, one SLA and the loads that make tables of up to MaxModels
\* configs
CtrlProfiles == { p \in Profiles : \A b \in 1..MaxKnownBatch : p.fwd[b] = 1000 }
CtrlSlaMs == {10}
CtrlWorkloads == {0, 250}

CtrlInit ==
  /\ SchedInit
  /\ profile \in CtrlProfiles

CtrlNext ==
  \/ \E sla_ms \in CtrlSlaMs, workload \in CtrlWorkloads :
       PrepareLoadModelCall(sla_ms, workload)
  \/ LoadModelConfig
  \/ \E sla_ms \in CtrlSlaMs, batch \in 1..MaxKnownBatch :
       LoadModelStatic(sla_ms, batch)
  \/ UpdateModelTable
  \/ UpdateStats
  \/ IsAlive
  \/ WallTick

CtrlSpec == CtrlInit /\ [][CtrlNext]_vars

\* UpdateModelTable up to the RPC (lines 175-185): the mutex is taken; a clean
\* table returns CTRL_OK at once, a dirty one is copied into the request and
\* sent, the mutex still held
UpdateModelTableSend ==
  /\ UNCHANGED execVars
  /\ sched_state = "running"
  /\ LockGuard(mutex_)
  /\ IF ~dirty_model_table
     THEN /\ call' = [op |-> "UpdateModelTable", rpcs |-> 0, sent |-> <<>>,
                      ret |-> "CTRL_OK"]
          /\ UNCHANGED <<mutex_, request>>
     ELSE /\ mutex_' = TRUE
          /\ request' = [pending |-> TRUE, table |-> model_table_config]
          /\ call' = [op |-> "UpdateModelTable", rpcs |-> 1,
                      sent |-> model_table_config, ret |-> "pending"]
  /\ UNCHANGED <<profile, exec_cycle_us, duty_cycle_us, model_table_config,
                 dirty_model_table, plan, sched_state, last_time, wall, acked>>

\* UpdateModelTable from the RPC's return (lines 185-195): an RPC that fails
\* changes nothing; a reply refreshes last_time_, and CTRL_OK, which
\* acknowledges the table of the request, clears dirty_model_table_; the mutex
\* is released at the return
UpdateModelTableReturn ==
  /\ UNCHANGED execVars
  /\ sched_state = "running"
  /\ request.pending
  /\ \E status_ok \in BOOLEAN, reply \in Replies, dt \in 0..1 :
       /\ wall + dt <= MaxWall
       /\ wall' = wall + dt
       /\ call' = [op |-> "UpdateModelTable", rpcs |-> 1, sent |-> request.table,
                   ret |-> IF status_ok THEN reply ELSE "CTRL_SERVER_UNREACHABLE"]
       /\ last_time' = IF status_ok THEN wall + dt ELSE last_time
       /\ dirty_model_table' =
            IF status_ok /\ reply = "CTRL_OK" THEN FALSE ELSE dirty_model_table
       /\ acked' = IF status_ok /\ reply = "CTRL_OK" THEN request.table ELSE acked
  /\ mutex_' = FALSE
  /\ request' = NoRequest
  /\ UNCHANGED <<profile, exec_cycle_us, duty_cycle_us, model_table_config, plan,
                 sched_state>>

\* threads that load models and threads that distribute the table, on one
\* backend record, a step of any of them at a time
ConcurrentNext ==
  \/ \E sla_ms \in CtrlSlaMs, workload \in CtrlWorkloads :
       PrepareLoadModelCall(sla_ms, workload)
  \/ LoadModelConfig
  \/ \E sla_ms \in CtrlSlaMs, batch \in 1..MaxKnownBatch :
       LoadModelStatic(sla_ms, batch)
  \/ UpdateModelTableSend
  \/ UpdateModelTableReturn

ConcurrentSpec == CtrlInit /\ [][ConcurrentNext]_vars

\* the executor with RemoveTask in its two steps: the shared queue is read by
\* the workers without mu_, so they see the state between the push and the
\* erase
TransferNext ==
  \/ \E tid \in Tids, ninputs \in 0..MaxInputs, deadline \in Deadlines :
       AddTask(tid, ninputs, deadline)
  \/ ExecuteBegin
  \/ GetBatchInputEnter
  \/ GetBatchInputPop
  \/ GetBatchInputRemovePush
  \/ GetBatchInputRemoveErase
  \/ GetBatchInputRelock
  \/ GetBatchInputExit
  \/ ForwardReturns
  \/ ForwardFails
  \/ ExecuteThrows
  \/ FanoutAttach
  \/ FanoutErase
  \/ \E o \in Objs : TaskFails(o)
  \/ Tick

TransferSpec == Init /\ [][TransferNext]_vars

\* the batch counter of the executor that runs for ever wraps at IdModulus (the
\* code's wraps at 2^64)
IdModulus == 2

\* Execute, lines 26-28, with the counter wrapping and no history kept
ExecuteBeginWrapping ==
  /\ UNCHANGED schedVars
  /\ pc = "idle"
  /\ batch_id_' = (batch_id_ + 1) % IdModulus
  /\ batch_task' = [NoBatch EXCEPT !.batch_id = FetchAdd(batch_id_),
                                   !.max_batch = model.max_batch]
  /\ pc' = "get"
  /\ UNCHANGED <<model, has_profile, tasks, next_obj, processing_tasks, input_queue,
                 task_queue, mu, batch_size, finish, removing, now, hist>>

\* a step of the thread that calls Execute again and again, every forward
\* pass returning
ExecuteStep ==
  \/ ExecuteBeginWrapping
  \/ GetBatchInputEnter
  \/ GetBatchInputPop
  \/ GetBatchInputRemove
  \/ GetBatchInputRelock
  \/ GetBatchInputExit
  \/ ForwardReturns
  \/ ExecuteThrows
  \/ Fanout

LiveNext ==
  \/ \E tid \in Tids, ninputs \in 0..MaxInputs, deadline \in Deadlines :
       AddTask(tid, ninputs, deadline)
  \/ ExecuteStep
  \/ \E o \in Objs : TaskFails(o)
  \/ Tick

\* Execute is invoked infinitely often and each call runs to its end: the
\* thread that calls it is scheduled fairly
LiveSpec == Init /\ [][LiveNext]_vars /\ WF_vars(ExecuteStep)

\* the longest postprocess queue explored when remove_task is repeated
MaxQueued == 2

\* remove_task called once more on a task it was already applied to
RemoveTaskAgain(o) ==
  /\ UNCHANGED schedVars
  /\ ~mu
  /\ Len(task_queue) < MaxQueued
  /\ tasks[o].added /\ tasks[o].stage = "postprocess"
  /\ RemoveTask(tasks, o)
  /\ UNCHANGED <<model, has_profile, next_obj, input_queue, batch_id_, mu, pc,
                 batch_task, batch_size, finish, removing, now, hist>>

\* the executor, with callers that repeat remove_task
RemoveNext ==
  \/ Next
  \/ \E o \in Objs : RemoveTaskAgain(o)

RemoveSpec == Init /\ [][RemoveNext]_vars

----------------------------------------------------------------------------
(* The properties. *)

\* how often task object o is in the postprocess queue
Pushes(o) == Cardinality({ i \in 1..Len(task_queue) : task_queue[i] = o })

\* the outputs (real or virtual) attached to a task
Attached(t) == Cardinality({ i \in 1..t.ninputs : t.outputs[i] # "none" })

\* GetBatchInput is forming a batch
Forming == pc \in {"loop", "remove", "relock"}

\* C1: with unique task ids, a task is pushed to the postprocess queue at most
\* once, and a task that was pushed has as many outputs (real and virtual) as
\* inputs and is no longer in processing_tasks; no task has more outputs than
\* inputs.
C1_RemovedOnceWhenComplete ==
  ~hist.dup =>
    \A o \in Objs :
      tasks[o].added =>
        /\ Pushes(o) <= 1
        /\ Attached(tasks[o]) <= tasks[o].ninputs
        /\ tasks[o].filled = Attached(tasks[o])
        /\ Pushes(o) = 1 =>
             /\ Attached(tasks[o]) = tasks[o].ninputs
             /\ processing_tasks[tasks[o].tid] # o
             /\ tasks[o].stage = "postprocess"
        /\ (removing = o /\ pc = "remove") => Attached(tasks[o]) = tasks[o].ninputs

\* a task of two inputs, one dropped and one forwarded, is in the postprocess queue
C1_Witness ==
  /\ ~hist.dup
  /\ \E o \in Objs :
       /\ tasks[o].ninputs = 2
       /\ Pushes(o) = 1
       /\ \E i, j \in 1..2 : tasks[o].outputs[i] = "real" /\ tasks[o].outputs[j] = "virtual"

\* C2: the batch of an Execute never holds more inputs than the model's
\* max_batch, the slots of its input array, whichever loadable config the
\* model was created from.
C2_BatchWithinMaxBatch ==
  /\ model.batch <= model.max_batch
  /\ Len(batch_task.inputs) <= model.max_batch
  /\ Len(batch_task.inputs) <= batch_task.max_batch

\* a batch that fills every slot of a max_batch of two reaches the forward pass
\* while an input is still queued
C2_Witness ==
  /\ pc = "forward"
  /\ model.max_batch = 2
  /\ Len(batch_task.inputs) = 2
  /\ input_queue # {}

\* C3 as stated: with a profile, every input appended has an OK task and a
\* deadline >= t + forward_latency(n); every popped input with an earlier
\* deadline or a non-OK task is left out and has a virtual output at its index.
C3_CutoffAtExactLatency ==
  (has_profile /\ Forming /\ ~hist.dup) =>
    LET exact == hist.t0 + GetForwardLatency(ExecProfile, batch_size)
    IN  \A pop \in batch_task.pops :
          /\ pop.appended => pop.ok /\ pop.in.deadline >= exact
          /\ (pop.in.deadline < exact \/ ~pop.ok) =>
               /\ ~pop.appended
               /\ tasks[pop.to].outputs[pop.in.index] = "virtual"

\* C3, amended: the cutoff is finish = t + int(forward_latency(n)), the latency
\* cut to whole microseconds.  With a profile, every input appended has an OK
\* task and a deadline >= finish; every popped input with a deadline < finish
\* or a non-OK task is left out of the batch and has a virtual output at its
\* index.
C3_CutoffAtTruncatedLatency ==
  (has_profile /\ Forming /\ ~hist.dup) =>
    /\ batch_size <= model.batch
    /\ finish = hist.t0 + IntLatency(GetForwardLatency(ExecProfile, batch_size))
    /\ \A pop \in batch_task.pops :
         /\ pop.appended => pop.ok /\ pop.in.deadline >= finish
         /\ (pop.in.deadline < finish \/ ~pop.ok) =>
              /\ ~pop.appended
              /\ tasks[pop.to].outputs[pop.in.index] = "virtual"
         /\ pop.appended <=>
              \E i \in 1..Len(batch_task.inputs) : batch_task.inputs[i] = pop.in

\* one formation appended an input, dropped one for its deadline and one for
\* its task's status
C3_Witness ==
  /\ has_profile /\ Forming /\ ~hist.dup
  /\ \E a, b \in batch_task.pops :
       /\ a.appended
       /\ ~b.appended /\ b.ok /\ b.in.deadline < finish
  /\ \E c \in batch_task.pops : ~c.appended /\ ~c.ok /\ c.in.deadline >= finish

\* C4: every input popped during batch formation has the earliest deadline of
\* the inputs queued at the moment it is popped.
C4_EarliestDeadlineFirst ==
  \A pop \in batch_task.pops : pop.in.deadline = pop.min_deadline

\* an input was popped ahead of a queued input of a later deadline, in a
\* formation that released the lock in between
C4_Witness ==
  /\ pc = "relock"
  /\ \E pop \in batch_task.pops :
       \E q \in input_queue : pop.in.deadline < q.deadline

\* C5 as stated: consecutive batches that reach the forward pass have
\* consecutive ids.
C5_ProducedWithoutGaps ==
  (pc = "forward" /\ hist.last_produced # <<>>) =>
    batch_task.batch_id = hist.last_produced[1] + 1

\* C5, amended: every Execute call takes the next id, with no gaps between
\* calls; the ids of the batches that reach the forward pass are strictly
\* increasing, and skip the ids of the calls whose batch stayed empty.
C5_IdsIncrease ==
  /\ Len(hist.calls) = batch_id_
  /\ \A i \in 1..Len(hist.calls) : hist.calls[i] = i - 1
  /\ pc # "idle" => batch_task.batch_id = batch_id_ - 1
  /\ (pc = "forward" /\ hist.last_produced # <<>>) =>
       batch_task.batch_id > hist.last_produced[1]

\* a batch reaches the forward pass two ids after the batch before it
C5_Witness ==
  /\ pc = "forward"
  /\ hist.last_produced # <<>>
  /\ batch_task.batch_id = hist.last_produced[1] + 2

\* C6 as stated: add_task with a task id not in the processing map inserts
\* the task and queues each of its inputs; with a task id in the map it changes
\* neither the map nor the input queue.
C6_DuplicateRejected ==
  [][ next_obj' = next_obj + 1 =>
        LET o == next_obj
            t == tasks'[o]
        IN  IF processing_tasks[t.tid] = NoTask
            THEN /\ processing_tasks' = [processing_tasks EXCEPT ![t.tid] = o]
                 /\ input_queue' = input_queue \cup InputsOf(o, t)
            ELSE /\ processing_tasks' = processing_tasks
                 /\ input_queue' = input_queue ]_vars

\* C7 as stated: a task remove_task was applied to, once or more, is absent
\* from processing_tasks, in stage postprocess and exactly once in the
\* postprocess queue.
C7_RemoveIdempotent ==
  ~hist.dup =>
    \A o \in Objs :
      (tasks[o].added /\ tasks[o].stage = "postprocess") =>
        /\ processing_tasks[tasks[o].tid] # o
        /\ Pushes(o) = 1

\* C8 as stated: when the forward pass of a batch has failed, every task of
\* the batch is non-OK and in the postprocess queue.
C8_FailedBatchPostprocessed ==
  pc = "failed" =>
    \A i \in 1..Len(batch_task.tasks) :
      /\ tasks[batch_task.tasks[i]].status # "CTRL_OK"
      /\ Pushes(batch_task.tasks[i]) >= 1

\* the last PrepareLoadModel call found a profile and an idle backend
PlannedIdle == plan.called /\ profile.present /\ plan.exec_cycle = 0

\* the workload of the last call saturates the GPU
PlanSaturating ==
  \/ plan.workload = 0
  \/ GetMaxThroughput(profile, plan.sla_ms)[2] <= plan.workload

\* the batches of [1, max_batch] that meet the residue inequality
ResidueFits ==
  { b \in 1..GetMaxThroughput(profile, plan.sla_ms)[1] :
      (b - 1) * 1000000 + (profile.fwd[b] + profile.pre + profile.post) * plan.workload
        <= plan.sla_ms * 1000 * plan.workload }

\* C9 as stated: in the residue case on an idle backend the batch returned is
\* the largest b of [1, max_batch] that meets the inequality.
C9_LargestResidueBatch ==
  (PlannedIdle /\ ~PlanSaturating /\ ResidueFits # {}) =>
    plan.ret.config.batch = Max(ResidueFits)

C11_MemoryUsageOfBatch ==
  (plan.called /\ plan.ret.kind = "ok" /\ plan.ret.config.batch >= 1) =>
    plan.ret.config.memory_usage = GetMemoryUsage(profile, plan.ret.config.batch)

\* C12 as stated: on an idle backend, when no batch b >= 1 has
\* preprocess + forward(b) + postprocess <= sla_us, PrepareLoadModel returns a
\* config of batch 0 for every workload and no profile query fails for a batch
\* out of the table.
C12_InfeasibleGivesBatchZero ==
  (PlannedIdle /\ GetMaxThroughput(profile, plan.sla_ms)[1] = 0) =>
    /\ plan.ret.kind = "ok"
    /\ plan.ret.config.batch = 0

\* C13: on a backend with exec_cycle_us > 0, PrepareLoadModel returns batch 0
\* whatever the session and workload, and LoadModel(config) leaves
\* exec_cycle_us, duty_cycle_us, model_table_config and dirty_model_table as
\* they are, also when the config was planned while the backend was idle and
\* another load came in between.
C13_LoadedBackendRefuses ==
  [][ /\ (call'.op = "PrepareLoadModel" /\ exec_cycle_us > 0) =>
           /\ plan'.ret.kind = "ok"
           /\ plan'.ret.config.batch = 0
      /\ (call'.op = "LoadModel" /\ exec_cycle_us > 0) =>
           UNCHANGED <<exec_cycle_us, duty_cycle_us, model_table_config,
                       dirty_model_table>> ]_vars

\* LoadModel was called with a plan of batch >= 1 made on the idle backend and
\* refused: the one config of the table is another load's
C13_Witness ==
  /\ call.op = "LoadModel"
  /\ plan.exec_cycle = 0
  /\ plan.ret.config.batch >= 1
  /\ Len(model_table_config) = 1
  /\ model_table_config[1] # plan.ret.config
  /\ exec_cycle_us > 0

\* C14 as stated: without a profile for the GPU, PrepareLoadModel and the
\* static loader both end in "cannot serve": batch 0, the model not loaded,
\* the record of the backend as it was, and the missing profile is not
\* dereferenced.
C14_MissingProfileRecoverable ==
  ~profile.present =>
    /\ sched_state = "running"
    /\ plan.called => (plan.ret.kind = "ok" /\ plan.ret.config.batch = 0)
    /\ model_table_config = <<>>
    /\ exec_cycle_us = 0 /\ duty_cycle_us = 0
    /\ ~dirty_model_table

\* the dirty-flag protocol of one step: an accepted load sets the flag; an
\* UpdateModelTable that finds it clear sends nothing and returns CTRL_OK; one
\* that finds it set sends the current table, returns
\* CTRL_SERVER_UNREACHABLE and leaves the flag set when the transport fails,
\* and leaves the flag clear exactly when the transport succeeded with reply
\* CTRL_OK
DirtyProtocolStep ==
  /\ Len(model_table_config') > Len(model_table_config) => dirty_model_table'
  /\ (call'.op = "UpdateModelTable" /\ ~dirty_model_table) =>
       /\ call'.rpcs = 0
       /\ call'.ret = "CTRL_OK"
       /\ ~dirty_model_table'
  /\ (call'.op = "UpdateModelTable" /\ dirty_model_table) =>
       /\ call'.rpcs = 1
       /\ call'.sent = model_table_config
       /\ call'.ret = "CTRL_SERVER_UNREACHABLE" => dirty_model_table'
       /\ ~dirty_model_table' <=> call'.ret = "CTRL_OK"

\* C15 as stated: the dirty-flag protocol, and an UpdateModelTable that
\* follows an UpdateModelTable with no load in between sends nothing.
C15_SecondUpdateSendsNothing ==
  [][ /\ DirtyProtocolStep
      /\ (call.op = "UpdateModelTable" /\ call'.op = "UpdateModelTable") =>
           call'.rpcs = 0 ]_vars

\* C15, amended: the dirty-flag protocol; the flag is set by an accepted load
\* only, so an UpdateModelTable that follows one that left the flag clear,
\* with no load in between, sends nothing, and one that follows an
\* UpdateModelTable that left the flag set sends the table again.
C15_DirtyProtocol ==
  [][ /\ DirtyProtocolStep
      /\ (dirty_model_table' /\ ~dirty_model_table) =>
           /\ call'.op \in {"LoadModel", "LoadModelStatic"}
           /\ Len(model_table_config') > Len(model_table_config)
      /\ (call.op = "UpdateModelTable" /\ call'.op = "UpdateModelTable") =>
           (call'.rpcs = 0 <=> ~dirty_model_table) ]_vars

\* a dirty table of two configs was sent and acknowledged with CTRL_OK, which
\* cleared the flag
C15_Witness ==
  /\ call.op = "UpdateModelTable"
  /\ call.rpcs = 1
  /\ call.ret = "CTRL_OK"
  /\ ~dirty_model_table
  /\ Len(call.sent) = 2

\* C16: IsAlive within the timeout of last_time returns true and issues no
\* RPC; otherwise it issues one CheckAlive RPC, returns true and sets last_time
\* to now when the RPC succeeds, returns false and leaves last_time when it
\* fails.  UpdateStats and an UpdateModelTable whose transport succeeded set
\* last_time to now.  No step moves last_time backwards.
C16_LastAliveRefreshed ==
  [][ /\ (call'.op = "IsAlive" /\ wall - last_time < Timeout) =>
           /\ call'.rpcs = 0
           /\ call'.ret = "true"
           /\ last_time' = last_time
      /\ (call'.op = "IsAlive" /\ wall - last_time >= Timeout) =>
           /\ call'.rpcs = 1
           /\ call'.ret \in {"true", "false"}
           /\ call'.ret = "true" => last_time' = wall'
           /\ call'.ret = "false" => last_time' = last_time
      /\ call'.op = "UpdateStats" => last_time' = wall'
      /\ (/\ call'.op = "UpdateModelTable"
          /\ call'.rpcs = 1
          /\ call'.ret # "CTRL_SERVER_UNREACHABLE") => last_time' = wall'
      /\ last_time' >= last_time ]_vars

\* IsAlive found the timeout passed, its CheckAlive RPC succeeded, and
\* last_time is the time after the RPC, the last second of the run
C16_Witness ==
  /\ call.op = "IsAlive"
  /\ call.rpcs = 1
  /\ call.ret = "true"
  /\ last_time = wall
  /\ wall = MaxWall

\* C17 as stated, on a GPU that has a profile: when the model table holds one
\* config, duty_cycle_us = sla_us - exec_cycle_us and exec_cycle_us is the
\* forward latency of the config's batch, whichever operation loaded it.
C17_SingleModelCycles ==
  (profile.present /\ Len(model_table_config) = 1) =>
    LET c == model_table_config[1]
    IN  /\ duty_cycle_us = c.latency_sla * 1000 - exec_cycle_us
        /\ exec_cycle_us = GetForwardLatency(profile, c.batch)

\* C17, amended: the load that puts the first config into the table leaves
\* exec_cycle_us = the config's forward_latency (forward_latency(batch) of the
\* profile when there is one); LoadModel(config) leaves
\* duty_cycle_us = sla_us - exec_cycle_us, the static loader leaves
\* duty_cycle_us = exec_cycle_us; nothing changes either while the table holds
\* that one config.
C17_SingleModelCyclesByLoader ==
  [][ /\ (Len(model_table_config) = 0 /\ Len(model_table_config') = 1) =>
           LET c == model_table_config'[1]
           IN  /\ call'.op \in {"LoadModel", "LoadModelStatic"}
               /\ exec_cycle_us' = c.forward_latency
               /\ profile.present =>
                    c.forward_latency = GetForwardLatency(profile, c.batch)
               /\ call'.op = "LoadModel" =>
                    duty_cycle_us' = c.latency_sla * 1000 - exec_cycle_us'
               /\ call'.op = "LoadModelStatic" => duty_cycle_us' = exec_cycle_us'
      /\ (Len(model_table_config) = 1 /\ Len(model_table_config') = 1) =>
           UNCHANGED <<exec_cycle_us, duty_cycle_us, model_table_config>> ]_vars

\* the static loader put the one config of the table there, and the duty cycle
\* is the exec cycle and not what is left of the SLA
C17_Witness ==
  /\ profile.present
  /\ call.op = "LoadModelStatic"
  /\ Len(model_table_config) = 1
  /\ duty_cycle_us = exec_cycle_us
  /\ exec_cycle_us = GetForwardLatency(profile, model_table_config[1].batch)
  /\ duty_cycle_us # model_table_config[1].latency_sla * 1000 - exec_cycle_us

\* the sum of forward_latency over the configs of a table
RECURSIVE SumForwardLatency(_)
SumForwardLatency(table) ==
  IF table = <<>> THEN 0
  ELSE table[1].forward_latency + SumForwardLatency(Tail(table))

\* C18: after any sequence of LoadModel(config) and static LoadModel calls,
\* exec_cycle_us is the sum of forward_latency over the configs of
\* model_table_config.
C18_ExecCycleIsSum ==
  exec_cycle_us = SumForwardLatency(model_table_config)

\* two static loads of different forward latency, on a GPU with a profile
C18_Witness ==
  /\ profile.present
  /\ Len(model_table_config) = 2
  /\ model_table_config[1].forward_latency # model_table_config[2].forward_latency
  /\ exec_cycle_us = model_table_config[1].forward_latency
                       + model_table_config[2].forward_latency

\* the last PrepareLoadModel call gave a residue plan of batch >= 1
PlannedResidue ==
  PlannedIdle /\ ~PlanSaturating /\ plan.ret.kind = "ok" /\ plan.ret.config.batch >= 1

\* D = sla_us - forward(b) - preprocess - postprocess of the plan's batch b
PlanDutyCycle ==
  plan.sla_ms * 1000 - GetForwardLatency(profile, plan.ret.config.batch)
    - GetPreprocessLatency(profile) - GetPostprocessLatency(profile)

C20_ForwardOutsideLock ==
  [][ /\ pc' = "forward" => ~mu'
      /\ (pc = "forward" /\ next_obj' = next_obj + 1) =>
           LET o == next_obj
               t == tasks'[o]
           IN  /\ ~mu /\ ~mu'
               /\ pc' = "forward"
               /\ batch_task' = batch_task
               /\ InputsOf(o, t) \subseteq input_queue'
               /\ processing_tasks[t.tid] = NoTask => processing_tasks'[t.tid] = o
               /\ \A i \in 1..Len(batch_task'.inputs) :
                    batch_task'.inputs[i] \notin InputsOf(o, t) ]_vars

\* the queue was empty when the batch in flight was formed, and a task added
\* since is in processing_tasks with its inputs queued
C20_Witness ==
  /\ pc = "forward"
  /\ ~mu
  /\ Len(batch_task.inputs) < model.batch
  /\ \E o \in Objs :
       /\ tasks[o].added
       /\ tasks[o].ninputs >= 1
       /\ processing_tasks[tasks[o].tid] = o
       /\ InputsOf(o, tasks[o]) \subseteq input_queue

\* C21 as stated, for unique task ids: a task that is in the postprocess queue
\* is not in processing_tasks, has no input in the input queue, and no step of
\* the executor that is still to come reads or writes it.
C21_TransferredNotReferenced ==
  ~hist.dup =>
    \A o \in Objs :
      Pushes(o) >= 1 =>
        /\ processing_tasks[tasks[o].tid] # o
        /\ \A in \in input_queue : in.obj # o
        /\ removing # o

\* C22 as stated: an Execute that finds the input queue empty, with or without
\* a profile, makes no profile query that fails for a batch out of the table,
\* reaches no forward pass and changes neither processing_tasks nor the input
\* queue nor a task.
C22_EmptyQueueNoOp ==
  [][ /\ (pc = "get" /\ input_queue = {} /\ pc' # "get") =>
           /\ pc' = "loop"
           /\ batch_size' = 0
           /\ UNCHANGED <<processing_tasks, input_queue, tasks>>
      /\ (pc = "loop" /\ batch_size = 0 /\ pc' # "loop") =>
           /\ pc' = "idle"
           /\ UNCHANGED <<processing_tasks, input_queue, tasks>> ]_vars

\* C23 as stated: when Execute is invoked again and again and every forward
\* pass returns, every task added with at least one input is eventually
\* erased from processing_tasks and in the postprocess queue.
C23_EveryTaskPostprocessed ==
  \A o \in Objs :
    (tasks[o].added /\ tasks[o].ninputs >= 1)
      ~> (Pushes(o) >= 1 /\ processing_tasks[tasks[o].tid] # o)

\* C24: whatever the interleaving of the loads and the table updates, whenever
\* dirty_model_table is false the table the backend last acknowledged with
\* CTRL_OK is the current model_table_config.
C24_NoUpdateLost ==
  ~dirty_model_table => acked = model_table_config

\* C24: a table of two configs was sent and acknowledged, and the record is
\* clean.
C24_Witness ==
  /\ ~dirty_model_table
  /\ call.op = "UpdateModelTable" /\ call.rpcs = 1 /\ call.ret = "CTRL_OK"
  /\ Len(model_table_config) = 2
  /\ acked = model_table_config

====
